---- MODULE Spec2Model ----
(***************************************************************************)
(* Build-and-burn orchestration core (src/cli/buildandburn.py).            *)
(*                                                                         *)
(* Two state machines share this module:                                   *)
(*   - the process supervisor loop that drives `terraform apply` during    *)
(*     `up` and the two destroy paths of `down` (SupSpec, SupFairSpec);    *)
(*   - the lifecycle controller: `up`, `down` and `list` over the          *)
(*     per-environment directory tree (Spec).                              *)
(* The pure functions of the program (dependency validator, state-file     *)
(* repair, manifest compiler) are operators, applied to bounded inputs in   *)
(* FunSpec. Each specification keeps the variables of the others at their  *)
(* idle values.                                                            *)
(***************************************************************************)
EXTENDS Integers, Sequences, FiniteSets, Bags, TLC

VARIABLES
    \* ---- process supervisor ----
    op,                   \* which loop runs: "apply", "destroy_plan", "destroy_direct"
    now,                  \* wall clock, time.time(), in seconds
    start_time,           \* start_time of the loop
    last_activity_time,   \* last_activity_time of the loop
    last_progress_update, \* last_progress_update of the loop
    current_time,         \* current_time read at the top of the running iteration
    resources,            \* creating_resources / destroying_resources
    proc,                 \* the subprocess: "running", "hung" (alive, silent for good), "exited"
    rc,                   \* its return code once exited
    sig,                  \* signal the supervisor sent it: "none", "term", "kill"
    pipe,                 \* stdout lines written by the subprocess and not read yet
    pc,                   \* supervisor position: "idle", "top", "read", "finish", "done"
    result                \* what the loop returns: "none", "ok", "failed", "timeout", "exception"

VARIABLES
    \* ---- lifecycle controller ----
    cmd,       \* running command: "none", "up", "down"
    env,       \* its EnvironmentID
    args,      \* its flags
    lpc,       \* its position
    ret,       \* its return value: "none", "true", "false"
    run,       \* what this run has done so far (history of the run)
    dir,       \* dir[e]: ~/.buildandburn/<e> exists
    record,    \* record[e]: env_info.json: "none", "minimal", "full"
    tfdir,     \* tfdir[e]: the provisioner working copy <e>/terraform exists
    state,     \* state[e]: condition of the provisioner state file
    initOk,    \* initOk[e]: a provisioner init for e has succeeded (history)
    applyOk,   \* applyOk[e]: a provisioning apply for e has exited 0 (history)
    lastUp,    \* lastUp[e]: how the last `up` for e ended (history)
    listing    \* the EnvironmentIDs the last `list` printed

VARIABLES
    \* ---- calls of the pure functions ----
    call       \* the function applied, its input and what it returned

supvars == <<op, now, start_time, last_activity_time, last_progress_update,
             current_time, resources, proc, rc, sig, pipe, pc, result>>

fsvars == <<dir, record, tfdir, state>>
histvars == <<initOk, applyOk, lastUp>>
lifevars == <<cmd, env, args, lpc, ret, run, fsvars, histvars, listing>>

funvars == <<call>>

vars == <<supvars, lifevars, funvars>>

(***************************************************************************)
(* Lifecycle controller: data                                              *)
(***************************************************************************)
Envs == {"e1"}

\* Conditions of the provisioner state file: absent; empty or blank; `{}`;
\* not JSON; JSON without "version"; JSON with "version" but without the
\* other structural fields; a complete state recording no resources; a
\* complete state recording resources.
StateConds == {"absent", "empty", "braces", "notjson", "noversion", "partial",
               "valid_empty", "valid_res"}

ProvisionerCmds == {"init", "plan", "apply", "plan_destroy", "apply_destroy", "destroy"}
DestructiveCmds == {"apply_destroy", "destroy"}

NoArgs == [auto_approve |-> FALSE, keep_local |-> FALSE, dry_run |-> FALSE, skip |-> FALSE]
UpArgs == [auto_approve : BOOLEAN, keep_local : {FALSE}, dry_run : BOOLEAN, skip : BOOLEAN]
\* --force is parsed by main() and read nowhere in cmd_down.
DownArgs == [auto_approve : BOOLEAN, keep_local : BOOLEAN, dry_run : {FALSE}, skip : {FALSE}]

RunInit == [invoked |-> {}, touched |-> FALSE, removed |-> FALSE, precheck |-> "none",
            state0 |-> "absent", repaired |-> FALSE, confirm |-> "none",
            outcome |-> "none", prev |-> "none", plans |-> 0,
            modules |-> "none", answer |-> "none", planOk |-> FALSE,
            reinits |-> 0, replans |-> 0, paths |-> {}, applied |-> {},
            rootState |-> FALSE, exiting |-> FALSE, cleanups |-> 0, refSaved |-> FALSE, steps |-> <<>>]

LifeIdle ==
    /\ cmd = "none"
    /\ env = "-"
    /\ args = NoArgs
    /\ lpc = "idle"
    /\ ret = "none"
    /\ run = RunInit
    /\ dir = [e \in Envs |-> FALSE]
    /\ record = [e \in Envs |-> "none"]
    /\ tfdir = [e \in Envs |-> FALSE]
    /\ state = [e \in Envs |-> "absent"]
    /\ initOk = [e \in Envs |-> FALSE]
    /\ applyOk = [e \in Envs |-> FALSE]
    /\ lastUp = [e \in Envs |-> "none"]
    /\ listing = {}

NoCall == [f |-> "none"]

FunIdle == call = NoCall

SupIdle ==
    /\ op = "apply"
    /\ now = 0
    /\ start_time = 0
    /\ last_activity_time = 0
    /\ last_progress_update = 0
    /\ current_time = 0
    /\ resources = {}
    /\ proc = "exited"
    /\ rc = 0
    /\ sig = "none"
    /\ pipe = <<>>
    /\ pc = "idle"
    /\ result = "none"

\* Variant of the state file check that rewrites every file it is given.
EnsureValidStateFile_AlwaysRewrites(c) == [repaired |-> TRUE, state |-> "valid_empty"]

\* ensure_valid_state_file: [repaired, state] for the returned flag and the
\* file it leaves. create_valid_state_file writes version 4, serial 0, a new
\* lineage, no outputs and no resources.
EnsureValidStateFile(c) ==
    IF c \in {"absent", "empty", "braces", "notjson", "noversion"}
      THEN [repaired |-> TRUE, state |-> "valid_empty"]
      ELSE [repaired |-> FALSE, state |-> c]

\* cmd_list: the environments it prints, one row per directory that holds an
\* env_info.json.
ListShown == {e \in Envs : dir[e] /\ record[e] # "none"}

\* cmd_list: the status column. No command writes 'destroyed_at'.
ListStatus(e) == "ACTIVE"

(***************************************************************************)
(* Program constants                                                       *)
(***************************************************************************)
TERRAFORM_APPLY_TIMEOUT == 7200
TERRAFORM_DESTROY_TIMEOUT == 3600
PROGRESS_UPDATE_INTERVAL == 30
ACTIVITY_GRACE == 300

(***************************************************************************)
(* Bounds of the model                                                     *)
(***************************************************************************)
MaxPipe == 1
\* The clock is observed at these offsets from the launch of the subprocess:
\* at launch, half way, ObsStep before the ceiling, at the ceiling, and
\* every ObsStep after it, MaxLate times.
ObsStep == 200
MaxLate == 4
\* Launch time of the subprocess.
StartTime == 1000

Ops == {"apply", "destroy_plan", "destroy_direct"}

\* Resource addresses that appear in the provisioner's progress lines.
ResNames == {"aws_vpc.main", "module.net.aws_vpc.main", "aws_eks_cluster.main"}

\* A stdout line: a start-of-action line ("<res>: Creating..." for apply,
\* "<res>: Destroying..." for destroy), a completion line ("<res>: Creation
\* complete ..." / "<res>: Destruction complete ..."), any other line, or a
\* line whose bytes readline() cannot decode.
Lines == [kind : {"start", "complete"}, res : ResNames]
           \cup {[kind |-> "other", res |-> ""], [kind |-> "bad", res |-> ""]}

\* any(x in r.lower() for x in ["eks", "kafka", "mq", "rds", "iam"])
IsSlow(r) == r \in {"aws_eks_cluster.main"}

\* `rt in line`: the tracked name occurs in the text of the line, which
\* begins with the address of the resource the line is about.
InLine(rt, line) ==
    \/ rt = line.res
    \/ rt = "aws_vpc.main" /\ line.res = "module.net.aws_vpc.main"

Timeout(o) == IF o = "apply" THEN TERRAFORM_APPLY_TIMEOUT ELSE TERRAFORM_DESTROY_TIMEOUT

ObsOffsets(o) ==
    {0, Timeout(o) \div 2, Timeout(o) - ObsStep}
        \cup {Timeout(o) + k * ObsStep : k \in 0..MaxLate}

\* Variant of the ceiling test that fires at 80% of the ceiling.
TimedOut_Early(elapsed, timeout) == 10 * elapsed > 8 * timeout

\* `if elapsed_time > timeout:` of the three loops.
TimedOut(elapsed, timeout) == elapsed > timeout

\* handle_terraform_timeout: [terminate, last] for (should_terminate, last_activity_time).
HandleTerraformTimeout(res, cur, start, last, timeout) ==
    LET elapsed == cur - start
        since   == cur - last
        retry   == {r \in res : IsSlow(r)}
    IN  IF since > ACTIVITY_GRACE /\ res # {} /\ retry # {} /\ 10 * elapsed < 8 * timeout
          THEN [terminate |-> FALSE, last |-> cur]
          ELSE [terminate |-> TRUE, last |-> last]

\* The inline timeout branch of the two destroy loops of cmd_down.
DestroyTimeoutBranch(res, cur, start, last, timeout) ==
    LET elapsed == cur - start
        since   == cur - last
        retry   == {r \in res : IsSlow(r)}
    IN  IF since > ACTIVITY_GRACE /\ res # {} /\ retry # {} /\ 10 * elapsed < 8 * timeout
          THEN [terminate |-> FALSE, last |-> cur]
          ELSE [terminate |-> TRUE, last |-> last]

\* The in-flight sets a processed line can leave (a Python set is iterated in
\* no fixed order, and the completion loop stops at the first name found in
\* the line). The fallback vocabulary of the apply loop is consulted only
\* when no tracked name is in the line, so it never removes a tracked name.
TrackOutcomes(res, line) ==
    IF line.kind = "start" THEN {res \cup {line.res}}
    ELSE IF line.kind = "complete"
      THEN LET found == {rt \in res : InLine(rt, line)}
           IN  IF found = {} THEN {res} ELSE {res \ {rt} : rt \in found}
    ELSE {res}

(***************************************************************************)
(* Supervisor: initial state (just after Popen and the loop's setup)       *)
(***************************************************************************)
SupInit ==
    /\ op \in Ops
    /\ now = StartTime
    /\ start_time = now
    /\ last_activity_time = now
    /\ last_progress_update = now
    /\ current_time = now
    /\ resources = {}
    /\ proc = "running"
    /\ rc = 0
    /\ sig = "none"
    /\ pipe = <<>>
    /\ pc = "top"
    /\ result = "none"
    /\ LifeIdle
    /\ FunIdle

(***************************************************************************)
(* Environment of the supervisor: the clock and the subprocess             *)
(***************************************************************************)
Tick ==
    /\ pc \in {"top", "read"}
    /\ \E t \in ObsOffsets(op) :
         /\ start_time + t > now
         /\ now' = start_time + t
    /\ UNCHANGED <<op, start_time, last_activity_time, last_progress_update,
                   current_time, resources, proc, rc, sig, pipe, pc, result>>
    /\ UNCHANGED <<lifevars, funvars>>

ProcEmit ==
    /\ pc \in {"top", "read"}
    /\ proc = "running"
    /\ Len(pipe) < MaxPipe
    /\ \E l \in Lines : pipe' = Append(pipe, l)
    /\ UNCHANGED <<op, now, start_time, last_activity_time, last_progress_update,
                   current_time, resources, proc, rc, sig, pc, result>>
    /\ UNCHANGED <<lifevars, funvars>>

ProcExit ==
    /\ pc \in {"top", "read"}
    /\ proc = "running"
    /\ proc' = "exited"
    /\ rc' \in {0, 1}
    /\ UNCHANGED <<op, now, start_time, last_activity_time, last_progress_update,
                   current_time, resources, sig, pipe, pc, result>>
    /\ UNCHANGED <<lifevars, funvars>>

ProcHang ==
    /\ pc \in {"top", "read"}
    /\ proc = "running"
    /\ proc' = "hung"
    /\ UNCHANGED <<op, now, start_time, last_activity_time, last_progress_update,
                   current_time, resources, rc, sig, pipe, pc, result>>
    /\ UNCHANGED <<lifevars, funvars>>

(***************************************************************************)
(* Supervisor: one loop iteration, cut where readline() can block          *)
(***************************************************************************)
\* The timeout decision one loop takes.
TimeoutDecision(o, res, cur, start, last, timeout) ==
    IF o = "apply" THEN HandleTerraformTimeout(res, cur, start, last, timeout)
    ELSE DestroyTimeoutBranch(res, cur, start, last, timeout)

\* From `current_time = time.time()` to the call of readline(): the progress
\* update, the poll() and the timeout check.
SupLoopTop ==
    /\ pc = "top"
    /\ current_time' = now
    /\ last_progress_update' =
         IF now - last_progress_update > PROGRESS_UPDATE_INTERVAL
           THEN now ELSE last_progress_update
    /\ IF proc = "exited"
         THEN /\ pc' = "finish"
              /\ UNCHANGED <<last_activity_time, proc, rc, sig, result>>
       ELSE IF TimedOut(now - start_time, Timeout(op))
         THEN LET d == TimeoutDecision(op, resources, now, start_time,
                                       last_activity_time, Timeout(op))
              IN  IF ~d.terminate
                    THEN /\ pc' = "top"
                         /\ last_activity_time' = d.last
                         /\ UNCHANGED <<proc, rc, sig, result>>
                  ELSE IF op = "destroy_direct"
                    \* apply_process is unbound on this path: the terminate()
                    \* raises, the outer handler returns False and
                    \* destroy_process is left as it is.
                    THEN /\ pc' = "done"
                         /\ result' = "exception"
                         /\ UNCHANGED <<last_activity_time, proc, rc, sig>>
                  ELSE \* terminate(), wait(timeout=10), kill() when still alive
                       /\ pc' = "done"
                       /\ result' = "timeout"
                       /\ proc' = "exited"
                       /\ \E s \in {"term", "kill"} :
                            /\ sig' = s
                            /\ rc' = IF s = "term" THEN -15 ELSE -9
                       /\ UNCHANGED last_activity_time
       ELSE /\ pc' = "read"
            /\ UNCHANGED <<last_activity_time, proc, rc, sig, result>>
    /\ UNCHANGED <<op, now, start_time, resources, pipe>>
    /\ UNCHANGED <<lifevars, funvars>>

\* readline() returns a line: it blocks until the subprocess has written one.
SupReadLine ==
    /\ pc = "read"
    /\ pipe # <<>>
    /\ LET line == Head(pipe)
       IN  /\ pipe' = Tail(pipe)
           /\ IF line.kind = "bad"
                \* readline() raises: warning, sleep(1), continue
                THEN UNCHANGED <<last_activity_time, resources>>
                ELSE /\ last_activity_time' = current_time
                     /\ resources' \in TrackOutcomes(resources, line)
    /\ pc' = "top"
    /\ UNCHANGED <<op, now, start_time, last_progress_update, current_time,
                   proc, rc, sig, result>>
    /\ UNCHANGED <<lifevars, funvars>>

\* readline() returns "" at end of file, once the subprocess has exited and
\* the pipe is drained: sleep(0.1), continue.
SupReadEOF ==
    /\ pc = "read"
    /\ pipe = <<>>
    /\ proc = "exited"
    /\ pc' = "top"
    /\ UNCHANGED <<op, now, start_time, last_activity_time, last_progress_update,
                   current_time, resources, proc, rc, sig, pipe, result>>
    /\ UNCHANGED <<lifevars, funvars>>

\* After the loop: stderr is read and the return code decides the result.
SupFinish ==
    /\ pc = "finish"
    /\ pc' = "done"
    /\ result' = IF rc = 0 THEN "ok" ELSE "failed"
    /\ UNCHANGED <<op, now, start_time, last_activity_time, last_progress_update,
                   current_time, resources, proc, rc, sig, pipe>>
    /\ UNCHANGED <<lifevars, funvars>>

SupStep == SupLoopTop \/ SupReadLine \/ SupReadEOF \/ SupFinish

SupNext ==
    \/ Tick
    \/ ProcEmit
    \/ ProcExit
    \/ ProcHang
    \/ SupLoopTop
    \/ SupReadLine
    \/ SupReadEOF
    \/ SupFinish

SupSpec == SupInit /\ [][SupNext]_vars

\* The interpreter keeps running the loop and the clock keeps advancing.
SupFairSpec == SupSpec /\ WF_vars(SupStep) /\ WF_vars(Tick)

(***************************************************************************)
(* Lifecycle controller: `up` (cmd_up, provision_infrastructure)           *)
(***************************************************************************)
\* Variant of the entry of cmd_up that goes straight to deployment when the
\* previous `up` of the environment provisioned and then failed to deploy.
UpFirstPhase_Resume(e) ==
    IF lastUp[e] = "deploy_failed" /\ record[e] = "full" THEN "deploy" ELSE "prov_start"

\* cmd_up calls provision_infrastructure on every invocation, whatever the
\* environment directory already holds.
UpFirstPhase(e) == "prov_start"

\* Variant of the record write that happens whether or not init succeeded.
InitRecord_Always(ok, old) == "minimal"

\* The env_info.json left by one initialisation block: the minimal record is
\* written inside the try, after a successful init; the except path that
\* re-initialises writes none.
InitRecord(ok, old) == IF ok THEN "minimal" ELSE old

\* cmd_up: environment id, manifest load, dry-run switch.
CmdUp ==
    /\ cmd = "none"
    /\ \E e \in Envs, a \in UpArgs, loaded \in BOOLEAN :
         /\ cmd' = "up"
         /\ env' = e
         /\ args' = a
         /\ run' = [RunInit EXCEPT !.prev = lastUp[e], !.state0 = state[e]]
         /\ IF ~loaded THEN lpc' = "done" /\ ret' = "false"
            ELSE IF a.dry_run THEN lpc' = "dry_run" /\ ret' = "none"
            ELSE lpc' = UpFirstPhase(e) /\ ret' = "none"
    /\ UNCHANGED <<fsvars, histvars, listing, supvars, funvars>>

\* cmd_up, dry run: pre-flight checks and a look at the Kubernetes resources.
UpDryRun ==
    /\ cmd = "up" /\ lpc = "dry_run"
    /\ lpc' = "done"
    /\ ret' \in {"true", "false"}
    /\ UNCHANGED <<cmd, env, args, run, fsvars, histvars, listing, supvars, funvars>>

\* provision_infrastructure: project directory, working copy, state
\* directory, backend override, cleanup handler, pre-flight checks.
ProvStart ==
    /\ cmd = "up" /\ lpc = "prov_start"
    /\ dir' = [dir EXCEPT ![env] = TRUE]
    /\ tfdir' = [tfdir EXCEPT ![env] = TRUE]
    /\ \E copied \in BOOLEAN :
         run' = [run EXCEPT !.touched = TRUE, !.rootState = copied]
    /\ lpc' = "preflight"
    /\ UNCHANGED <<cmd, env, args, ret, record, state, histvars, listing, supvars, funvars>>

\* run_preflight_checks: when a check fails the operator is asked whether to
\* continue; any answer but `y` ends the process with sys.exit(0). The
\* caller ignores the return value.
ProvPreflight ==
    /\ cmd = "up" /\ lpc = "preflight"
    /\ \E passed \in BOOLEAN, yes \in BOOLEAN :
         IF passed \/ yes THEN /\ lpc' = "creds"
                               /\ UNCHANGED <<ret, lastUp>>
         ELSE /\ lpc' = "done"
              /\ ret' = "exit0"
              /\ lastUp' = [lastUp EXCEPT ![env] = "prov_failed"]
    /\ UNCHANGED <<cmd, env, args, run, fsvars, initOk, applyOk, listing, supvars, funvars>>

\* main: the exit code of the process for what the command returned
\* ("true", "false") or for the sys.exit the command ended with.
ExitCode(r) ==
    CASE r = "true" -> 0
      [] r = "false" -> 1
      [] r = "exit0" -> 0
      [] r = "exit1" -> 1

\* provision_infrastructure: AWS credentials check.
ProvCreds ==
    /\ cmd = "up" /\ lpc = "creds"
    /\ \E ok \in BOOLEAN :
         IF ok THEN /\ lpc' = "validate"
                    /\ UNCHANGED <<ret, lastUp>>
         ELSE /\ lpc' = "done"
              /\ ret' = "false"
              /\ lastUp' = [lastUp EXCEPT ![env] = "prov_failed"]
    /\ UNCHANGED <<cmd, env, args, run, fsvars, initOk, applyOk, listing, supvars, funvars>>

(***************************************************************************)
(* Dependency Validator (validate_terraform_modules_against_manifest)      *)
(***************************************************************************)
\* allowed_types of the manifest checker.
DepTypes == {"database", "queue", "redis", "kafka"}

\* required_modules: the core modules and one module per declared
\* dependency type that the validator knows.
RequiredModules(D) ==
    {"vpc", "eks"}
        \cup (IF "database" \in D THEN {"rds"} ELSE {})
        \cup (IF "queue" \in D THEN {"mq"} ELSE {})
        \cup (IF "redis" \in D THEN {"elasticache"} ELSE {})

\* required_policy_modules.
RequiredPolicyModules(D) ==
    (IF "database" \in D THEN {"eks-to-rds-policy"} ELSE {})
        \cup (IF "queue" \in D THEN {"eks-to-mq-policy"} ELSE {})
        \cup (IF "redis" \in D THEN {"eks-to-elasticache-policy"} ELSE {})

ModuleNames == RequiredModules(DepTypes) \cup RequiredPolicyModules(DepTypes)

\* The part of the working copy the validator looks at: whether modules/
\* exists and which module directories it holds.
ModuleTrees ==
    {t \in [modules_dir : BOOLEAN, present : SUBSET ModuleNames] :
        ~t.modules_dir => t.present = {}}

\* The working copies an `up` of a manifest with dependency types D is run
\* against: modules/ is missing, or at most MaxMissing of the module
\* directories the validator looks for are (the others are never tested).
MaxMissing == 2

WorkingCopies(D) ==
    {t \in ModuleTrees :
        \/ ~t.modules_dir
        \/ /\ t.modules_dir
           /\ ModuleNames \ t.present \subseteq RequiredModules(D) \cup RequiredPolicyModules(D)
           /\ Cardinality(ModuleNames \ t.present) <= MaxMissing}

\* The ValidationResults fields that later steps read. When modules/ is
\* missing the function returns before it fills modules.required and before
\* it looks at the policy modules.
ValidateModules(D, t) ==
    IF ~t.modules_dir
      THEN [success |-> FALSE,
            required |-> {},
            missing |-> RequiredModules(D),
            policy_required |-> RequiredPolicyModules(D),
            policy_missing |-> {}]
      ELSE [success |-> RequiredModules(D) \subseteq t.present,
            required |-> RequiredModules(D),
            missing |-> RequiredModules(D) \ t.present,
            policy_required |-> RequiredPolicyModules(D),
            policy_missing |-> RequiredPolicyModules(D) \ t.present]

\* Variant of the core-module test that lets a failed validation through.
CoreModulesMissing_Never(r) == FALSE

\* `if not tf_modules_valid and validation_results["modules"]["missing"]`
CoreModulesMissing(r) == ~r.success /\ r.missing # {}

\* Variant of the policy prompt guard that never asks.
PolicyPromptNeeded_Never(r, a) == FALSE

\* The prompt on missing policy modules is reached when some are missing and
\* skip_module_confirmation is not set, and is answered by auto-approve.
PolicyPromptNeeded(r, a) == r.policy_missing # {} /\ ~a.skip /\ ~a.auto_approve

\* provision_infrastructure: variables file, module validation, the stop on
\* missing core modules, the prompt on missing policy modules.
ProvValidateModules ==
    /\ cmd = "up" /\ lpc = "validate"
    /\ \E D \in SUBSET DepTypes :
       \E t \in WorkingCopies(D) :
         LET r == ValidateModules(D, t)
             asked == ~CoreModulesMissing(r) /\ PolicyPromptNeeded(r, args)
             verdict == IF r.missing # {} THEN "core_missing"
                        ELSE IF r.policy_missing # {} THEN "policy_missing"
                        ELSE "ok"
         IN  \E answer \in (IF asked THEN {"yes", "no"} ELSE {"none"}) :
               /\ run' = [run EXCEPT !.modules = verdict, !.answer = answer]
               /\ IF CoreModulesMissing(r) \/ answer = "no"
                    THEN /\ lpc' = "done"
                         /\ ret' = "false"
                         /\ lastUp' = [lastUp EXCEPT ![env] = "prov_failed"]
                    ELSE /\ lpc' = "init1"
                         /\ UNCHANGED <<ret, lastUp>>
    /\ UNCHANGED <<cmd, env, args, fsvars, initOk, applyOk, listing, supvars, funvars>>

\* provision_infrastructure: one of the two initialisation blocks: init, the
\* state file check and the minimal env_info.json; on an exception a second
\* init.
ProvInit ==
    /\ cmd = "up" /\ lpc \in {"init1", "init2"}
    /\ \E first \in BOOLEAN, retry \in BOOLEAN :
         /\ run' = [run EXCEPT !.invoked = @ \cup {"init"},
                               !.reinits = IF first THEN @ ELSE @ + 1,
                               !.rootState = FALSE]
         /\ record' = [record EXCEPT ![env] = InitRecord(first, @)]
         /\ state' = [state EXCEPT ![env] =
                        IF first THEN EnsureValidStateFile(@).state ELSE @]
         /\ IF first \/ retry
              THEN /\ initOk' = [initOk EXCEPT ![env] = TRUE]
                   /\ lpc' = IF lpc = "init1" THEN "validate_config" ELSE "plan"
                   /\ UNCHANGED <<ret, lastUp>>
              ELSE /\ lpc' = "done"
                   /\ ret' = "false"
                   /\ lastUp' = [lastUp EXCEPT ![env] = "prov_failed"]
                   /\ UNCHANGED initOk
    /\ UNCHANGED <<cmd, env, args, dir, tfdir, applyOk, listing, supvars, funvars>>

\* provision_infrastructure: configuration validation and its prompt.
ProvValidateConfig ==
    /\ cmd = "up" /\ lpc = "validate_config"
    /\ \E ok \in BOOLEAN, yes \in BOOLEAN :
         IF ok \/ yes THEN /\ lpc' = "init2"
                           /\ UNCHANGED <<ret, lastUp>>
         ELSE /\ lpc' = "done"
              /\ ret' = "false"
              /\ lastUp' = [lastUp EXCEPT ![env] = "prov_failed"]
    /\ UNCHANGED <<cmd, env, args, run, fsvars, initOk, applyOk, listing, supvars, funvars>>

\* ---------------------------------------------------------------------
\* Error classifier: analyze_terraform_errors and fix_terraform_issues.
\* ---------------------------------------------------------------------

\* common_error_patterns
ErrorTable ==
    {[pattern |-> "provider configuration not present",
      diagnosis |-> "Provider configuration is missing or invalid",
      suggestion |-> "Check the provider blocks in your Terraform files. Add a proper providers.tf file.",
      auto_fixable |-> TRUE, fix_action |-> "add_provider_config"],
     [pattern |-> "registry.terraform.io",
      diagnosis |-> "Provider registry issue or connectivity problem",
      suggestion |-> "Try running terraform init -upgrade to refresh provider cache, or check internet connectivity",
      auto_fixable |-> TRUE, fix_action |-> "reinit_upgrade"],
     [pattern |-> "No value for required variable",
      diagnosis |-> "Missing required Terraform variable value",
      suggestion |-> "Ensure all required variables are set in your tfvars file",
      auto_fixable |-> TRUE, fix_action |-> "check_required_vars"],
     [pattern |-> "provider configuration block for provider",
      diagnosis |-> "Duplicate provider configuration block",
      suggestion |-> "Remove duplicate provider blocks from your Terraform files",
      auto_fixable |-> TRUE, fix_action |-> "fix_duplicate_providers"],
     [pattern |-> "Cannot process schema for this provider",
      diagnosis |-> "Plugin cache may be corrupted",
      suggestion |-> "Try clearing the .terraform directory and reinitializing",
      auto_fixable |-> TRUE, fix_action |-> "clear_plugin_cache"],
     [pattern |-> "Error: error configuring Terraform AWS Provider",
      diagnosis |-> "AWS provider configuration issue",
      suggestion |-> "Check AWS credentials and region configuration",
      auto_fixable |-> FALSE, fix_action |-> "none"],
     [pattern |-> "Error: error validating provider credentials",
      diagnosis |-> "AWS credentials are invalid or missing",
      suggestion |-> "Verify AWS credentials are properly configured",
      auto_fixable |-> FALSE, fix_action |-> "none"],
     [pattern |-> "Invalid block",
      diagnosis |-> "Syntax error in Terraform configuration",
      suggestion |-> "Check for syntax errors like missing brackets or quotes in your Terraform files",
      auto_fixable |-> TRUE, fix_action |-> "auto_format"],
     [pattern |-> "Unsupported argument",
      diagnosis |-> "Using an argument that is not supported by the resource/provider",
      suggestion |-> "Remove or fix the unsupported argument in your Terraform configuration",
      auto_fixable |-> FALSE, fix_action |-> "none"]}

\* A captured error text: its lines, each line given by the table patterns
\* that occur in it (at most one here).
MaxLines == 1
ErrorTexts ==
    UNION {[1..n -> {{}} \cup {{r.pattern} : r \in ErrorTable}] : n \in 0..MaxLines}

\* What `for line in error_output` yields when error_output is a str, as
\* process.stderr.read() is: the characters of the text, one at a time. Every
\* pattern of the table is longer than one character, so no item holds one.
Characters(text) == [i \in 1..Len(text) |-> {}]

\* analyze_terraform_errors on the items its loop iterates over
AnalyzeTerraformErrors(items) ==
    LET matched == {r \in ErrorTable : \E i \in 1..Len(items) : r.pattern \in items[i]}
        fixable == {r \in matched : r.auto_fixable}
    IN  [errors |-> {r.diagnosis : r \in matched},
         suggestions |-> {r.suggestion : r \in matched},
         auto_fix_possible |-> fixable # {},
         fix_actions |-> {r.fix_action : r \in fixable}]

\* fix_terraform_issues: True when the analysis allows a fix and some fix
\* action reports success
FixTerraformIssues(analysis, applied) ==
    analysis.auto_fix_possible /\ analysis.fix_actions # {} /\ applied

\* provision_infrastructure: the plan, and on its failure the error analysis
\* and the fix pass.
ProvPlan ==
    /\ cmd = "up" /\ lpc = "plan"
    /\ \E planned \in BOOLEAN, text \in ErrorTexts, applied \in BOOLEAN :
         /\ run' = [run EXCEPT !.invoked = @ \cup {"plan"}, !.plans = @ + 1,
                               !.planOk = planned]
         /\ IF planned THEN /\ lpc' = "approve"
                            /\ UNCHANGED <<ret, lastUp>>
            ELSE IF FixTerraformIssues(AnalyzeTerraformErrors(Characters(text)), applied)
                 THEN /\ lpc' = "replan"
                               /\ UNCHANGED <<ret, lastUp>>
            ELSE /\ lpc' = "done"
                 /\ ret' = "false"
                 /\ lastUp' = [lastUp EXCEPT ![env] = "prov_failed"]
    /\ UNCHANGED <<cmd, env, args, fsvars, initOk, applyOk, listing, supvars, funvars>>

\* provision_infrastructure: the plan re-run after a fix pass. ProvPlan never
\* moves to "replan" (the analysis of a str allows no fix), so this step is
\* not among the steps of Next.
ProvReplan ==
    /\ cmd = "up" /\ lpc = "replan"
    /\ \E planned \in BOOLEAN :
         /\ run' = [run EXCEPT !.plans = @ + 1, !.planOk = planned,
                               !.replans = @ + 1]
         /\ IF planned THEN /\ lpc' = "approve"
                            /\ UNCHANGED <<ret, lastUp>>
            ELSE /\ lpc' = "done"
                 /\ ret' = "false"
                 /\ lastUp' = [lastUp EXCEPT ![env] = "prov_failed"]
    /\ UNCHANGED <<cmd, env, args, fsvars, initOk, applyOk, listing, supvars, funvars>>

\* Variant of the approval test that lets every answer through.
ApplyApproved_Always(a, yes) == TRUE

\* `if not args.auto_approve: ... if user_confirm.lower() != 'y': return`
ApplyApproved(a, yes) == a.auto_approve \/ yes

\* provision_infrastructure: the operator's approval of the plan.
ProvApprove ==
    /\ cmd = "up" /\ lpc = "approve"
    /\ \E yes \in BOOLEAN :
         /\ run' = [run EXCEPT !.confirm = IF args.auto_approve THEN "skipped"
                                           ELSE IF yes THEN "yes" ELSE "no"]
         /\ IF ApplyApproved(args, yes)
              THEN /\ lpc' = "apply"
                   /\ UNCHANGED <<ret, lastUp>>
              ELSE /\ lpc' = "done"
                   /\ ret' = "false"
                   /\ lastUp' = [lastUp EXCEPT ![env] = "prov_failed"]
    /\ UNCHANGED <<cmd, env, args, fsvars, initOk, applyOk, listing, supvars, funvars>>

\* Variant of the apply step that rolls back on failure: it runs a destroy
\* and removes the environment directory.
ProvApply_Rollback ==
    /\ cmd = "up" /\ lpc = "apply"
    /\ \E o \in {"ok", "failed", "timeout", "exception"} :
         IF o = "ok"
           THEN /\ run' = [run EXCEPT !.invoked = @ \cup {"apply"}, !.outcome = o]
                /\ lpc' = "outputs"
                /\ applyOk' = [applyOk EXCEPT ![env] = TRUE]
                /\ state' = [state EXCEPT ![env] = "valid_res"]
                /\ UNCHANGED <<ret, lastUp, dir, record, tfdir>>
           ELSE /\ run' = [run EXCEPT !.invoked = @ \cup {"apply", "destroy"},
                                      !.outcome = o, !.removed = TRUE]
                /\ lpc' = "done"
                /\ ret' = "false"
                /\ lastUp' = [lastUp EXCEPT ![env] = "prov_failed"]
                /\ dir' = [dir EXCEPT ![env] = FALSE]
                /\ record' = [record EXCEPT ![env] = "none"]
                /\ tfdir' = [tfdir EXCEPT ![env] = FALSE]
                /\ state' = [state EXCEPT ![env] = "absent"]
                /\ UNCHANGED applyOk
    /\ UNCHANGED <<cmd, env, args, initOk, listing, supvars, funvars>>

\* provision_infrastructure: the supervised apply. The provisioner writes
\* the state file as it creates resources.
ProvApply ==
    /\ cmd = "up" /\ lpc = "apply"
    /\ \E o \in {"ok", "failed", "timeout", "exception"} :
         /\ run' = [run EXCEPT !.invoked = @ \cup {"apply"}, !.outcome = o]
         /\ IF o = "ok"
              THEN /\ lpc' = "outputs"
                   /\ applyOk' = [applyOk EXCEPT ![env] = TRUE]
                   /\ state' = [state EXCEPT ![env] = "valid_res"]
                   /\ UNCHANGED <<ret, lastUp>>
              ELSE /\ lpc' = "done"
                   /\ ret' = "false"
                   /\ lastUp' = [lastUp EXCEPT ![env] = "prov_failed"]
                   /\ state' \in {state, [state EXCEPT ![env] = "valid_res"]}
                   /\ UNCHANGED applyOk
    /\ UNCHANGED <<cmd, env, args, dir, record, tfdir, initOk, listing, supvars, funvars>>

\* provision_infrastructure: the output query and the full env_info.json;
\* cmd_up: an empty output map is a provisioning failure.
ProvOutputs ==
    /\ cmd = "up" /\ lpc = "outputs"
    /\ record' = [record EXCEPT ![env] = "full"]
    /\ \E got \in BOOLEAN :
         IF got THEN /\ lpc' = "deploy"
                     /\ UNCHANGED <<ret, lastUp>>
         ELSE /\ lpc' = "done"
              /\ ret' = "false"
              /\ lastUp' = [lastUp EXCEPT ![env] = "prov_failed"]
    /\ UNCHANGED <<cmd, env, args, run, dir, tfdir, state, initOk, applyOk,
                   listing, supvars, funvars>>

\* cmd_up: Kubernetes resources, deployment, access information.
\* What deploy_to_kubernetes finds and what its commands answer. layout: a
\* chart, a manifests directory with YAML files, a single manifest file, a
\* directory without YAML files, or nothing; helm: the outcome of the helm
\* install (and, on an ownership error, of the namespace deletion and the
\* second install); apply: whether every kubectl apply of a manifest
\* succeeds; generated: whether the kubectl apply of kubernetes.yaml succeeds.
\* Answers that the chosen layout never asks for are held at one value.
HelmOutcomes == {"ok", "fail", "ownership_delete_fail", "ownership_retry_fail",
                 "ownership_retry_ok"}
DeployWorlds ==
    {w \in [kubeconfig : BOOLEAN, kubectl : BOOLEAN,
            layout : {"chart", "manifests", "file", "empty_dir", "none"},
            helmInstalled : BOOLEAN, helm : HelmOutcomes,
            apply : BOOLEAN, generated : BOOLEAN] :
        /\ ~w.kubeconfig => w.kubectl
        /\ ~(w.kubeconfig /\ w.kubectl) => w.layout = "none"
        /\ w.layout # "chart" => ~w.helmInstalled
        /\ ~w.helmInstalled => w.helm = "ok"
        /\ w.layout \notin {"manifests", "file"} => w.apply
        /\ (~(w.kubeconfig /\ w.kubectl) \/ w.helmInstalled \/ w.layout = "manifests"
              \/ (w.layout = "file" /\ w.apply)) => w.generated}

\* helm_chart_path and k8s_manifests_path: the path selection sets one or the
\* other, never both
HelmChartPath(w) == w.layout = "chart"
ManifestsPath(w) == w.layout \in {"manifests", "file", "empty_dir"}

\* deploy_to_kubernetes: the paths it attempts, the paths on which an apply
\* succeeded, and its return value
DeployToKubernetes(w) ==
    LET none == [ok |-> FALSE, paths |-> {}, applied |-> {}]
        helmRun == HelmChartPath(w) /\ w.helmInstalled
        helmOk == helmRun /\ w.helm \in {"ok", "ownership_retry_ok"}
        afterHelm == [ok |-> helmOk,
                      paths |-> IF helmRun THEN {"helm"} ELSE {},
                      applied |-> IF helmOk THEN {"helm"} ELSE {}]
        manifestsRun == ~afterHelm.ok /\ ManifestsPath(w) /\ w.layout # "empty_dir"
        afterManifests ==
            IF manifestsRun
            THEN [ok |-> w.layout = "manifests" \/ w.apply,
                  paths |-> afterHelm.paths \cup {"manifests"},
                  applied |-> IF w.apply THEN {"manifests"} ELSE {}]
            ELSE afterHelm
        afterGenerated ==
            IF ~afterManifests.ok
            THEN [ok |-> w.generated,
                  paths |-> afterManifests.paths \cup {"generated"},
                  applied |-> afterManifests.applied \cup
                                (IF w.generated THEN {"generated"} ELSE {})]
            ELSE afterManifests
    IN  IF ~w.kubeconfig \/ ~w.kubectl THEN none
        ELSE IF helmRun /\ ~helmOk /\ ~ManifestsPath(w) THEN afterHelm
        ELSE afterGenerated

\* templates/namespace.yaml as create_helm_chart writes it: for each line,
\* whether it starts with `#`
NamespaceYaml ==
    <<[hash |-> TRUE, text |-> "This file is intentionally commented out to prevent namespace ownership conflicts."],
      [hash |-> TRUE, text |-> "The namespace will be created by the buildandburn CLI tool before Helm runs."],
      [hash |-> TRUE, text |-> "If you need to use this template, remove the comments and ensure proper Helm ownership."],
      [hash |-> TRUE, text |-> ""],
      [hash |-> TRUE, text |-> "apiVersion: v1"],
      [hash |-> TRUE, text |-> "kind: Namespace"],
      [hash |-> TRUE, text |-> "metadata:"],
      [hash |-> TRUE, text |-> "  name: {{ .Values.global.namespace }}"],
      [hash |-> TRUE, text |-> "  labels:"],
      [hash |-> TRUE, text |-> "    {{- include \"app.labels\" . | nindent 4 }}"],
      [hash |-> TRUE, text |-> "    managed-by: buildandburn"]>>

\* Variant of the command order without the namespace step.
DeploySteps_NoNamespace(w, r) ==
    (IF "helm" \in r.paths THEN <<"helm">> ELSE <<>>)
    \o (IF "manifests" \in r.paths THEN <<"manifests">> ELSE <<>>)
    \o (IF "generated" \in r.paths THEN <<"generated">> ELSE <<>>)

\* deploy_to_kubernetes: the order of its cluster-changing commands, for the
\* paths r.paths it attempts: `kubectl create namespace | kubectl apply`, then
\* the helm install, then the manifests, then the generated resources
DeploySteps(w, r) ==
    IF ~w.kubeconfig \/ ~w.kubectl THEN <<>>
    ELSE <<"namespace">>
         \o (IF "helm" \in r.paths THEN <<"helm">> ELSE <<>>)
         \o (IF "manifests" \in r.paths THEN <<"manifests">> ELSE <<>>)
         \o (IF "generated" \in r.paths THEN <<"generated">> ELSE <<>>)

UpDeploy ==
    /\ cmd = "up" /\ lpc = "deploy"
    /\ lpc' = "done"
    /\ \E w \in DeployWorlds :
         LET r == DeployToKubernetes(w) IN
         /\ run' = [run EXCEPT !.paths = r.paths, !.applied = r.applied,
                               !.steps = DeploySteps(w, r)]
         /\ ret' = IF r.ok THEN "true" ELSE "false"
         /\ lastUp' = [lastUp EXCEPT ![env] =
                         IF r.ok THEN "deployed" ELSE "deploy_failed"]
    /\ UNCHANGED <<cmd, env, args, fsvars, initOk, applyOk, listing, supvars, funvars>>

\* cleanup_handler of setup_cleanup_handler: it runs once (is_exiting), and
\* saves the reference to ~/.buildandburn_last when the working copy holds
\* terraform.tfstate at its top level. r.rootState tells whether that file
\* exists: copytree can bring one, the initialization sequence removes it, and
\* the backend override keeps the provisioner's state in state/.
CleanupHandler(r) ==
    IF r.exiting THEN r
    ELSE [r EXCEPT !.exiting = TRUE, !.cleanups = @ + 1, !.refSaved = r.rootState]

\* SIGINT or SIGTERM once the handler is registered: the handler runs and
\* raises SystemExit(1); at interpreter exit atexit calls it again.
Interrupt ==
    /\ cmd = "up"
    /\ lpc \in {"preflight", "creds", "validate", "init1", "validate_config", "init2", "plan",
                "approve", "apply", "outputs", "deploy"}
    /\ run' = CleanupHandler(CleanupHandler(run))
    /\ lpc' = "done"
    /\ ret' = "exit1"
    /\ lastUp' = [lastUp EXCEPT ![env] =
                    IF lpc = "deploy" THEN "deploy_failed" ELSE "prov_failed"]
    /\ UNCHANGED <<cmd, env, args, fsvars, initOk, applyOk, listing, supvars, funvars>>

(***************************************************************************)
(* Lifecycle controller: `down` (cmd_down)                                 *)
(***************************************************************************)
\* Variant of the existence checks without the working-directory check.
DownPrecheck_NoWorkdir(e) == dir[e] /\ record[e] # "none"

\* Variant of the confirmation guard that never prompts.
ConfirmSkipped_Always(a) == TRUE

\* Variant of the exit-status test that takes every outcome for success.
DestroySucceeded_Always(o) == TRUE

\* The three existence checks that open cmd_down.
DownPrecheck(e) == dir[e] /\ record[e] # "none" /\ tfdir[e]

\* `not args.auto_approve and input(...)`: the prompt is skipped.
ConfirmSkipped(a) == a.auto_approve

\* `if apply_process.returncode != 0: ... return False` (and the same test
\* on destroy_process), together with the timeout and exception returns.
DestroySucceeded(o) == o = "ok"

CmdDown ==
    /\ cmd = "none"
    /\ \E e \in Envs, a \in DownArgs :
         /\ cmd' = "down"
         /\ env' = e
         /\ args' = a
         /\ IF DownPrecheck(e)
              THEN /\ lpc' = "down_state"
                   /\ ret' = "none"
                   /\ run' = [RunInit EXCEPT !.prev = lastUp[e], !.state0 = state[e],
                                             !.precheck = "ok"]
              ELSE /\ lpc' = "done"
                   /\ ret' = "false"
                   /\ run' = [RunInit EXCEPT !.prev = lastUp[e], !.state0 = state[e],
                                             !.precheck = "fail"]
    /\ UNCHANGED <<fsvars, histvars, listing, supvars, funvars>>

\* cmd_down: locate the state file, ensure_valid_state_file, and the prompt
\* on a state file that still reads as empty.
DownEnsureState ==
    /\ cmd = "down" /\ lpc = "down_state"
    /\ LET r == EnsureValidStateFile(state[env])
       IN  /\ state' = [state EXCEPT ![env] = r.state]
           /\ tfdir' = [tfdir EXCEPT ![env] = TRUE]
           /\ run' = [run EXCEPT !.repaired = r.repaired,
                                 !.touched = @ \/ r.repaired]
           /\ \E yes \in BOOLEAN :
                IF r.state \in {"empty", "braces"} /\ ~yes
                  THEN lpc' = "done" /\ ret' = "false"
                  ELSE lpc' = "down_plan" /\ ret' = "none"
    /\ UNCHANGED <<cmd, env, args, dir, record, histvars, listing, supvars, funvars>>

\* cmd_down: destroy log, backend override, init (its failure is only
\* reported) and the destroy plan.
DownPlan ==
    /\ cmd = "down" /\ lpc = "down_plan"
    /\ \E how \in {"planned", "plan_failed", "exception"} :
         /\ run' = [run EXCEPT !.touched = TRUE,
                               !.invoked = @ \cup {"init", "plan_destroy"},
                               !.outcome = IF how = "exception" THEN "exception" ELSE @,
                               !.plans = IF how = "planned" THEN 1 ELSE 0]
         /\ IF how = "exception"
              THEN lpc' = "done" /\ ret' = "false"
              ELSE lpc' = "down_confirm" /\ ret' = "none"
    /\ UNCHANGED <<cmd, env, args, fsvars, histvars, listing, supvars, funvars>>

\* cmd_down: the confirmation before either destroy path.
DownConfirm ==
    /\ cmd = "down" /\ lpc = "down_confirm"
    /\ \E yes \in BOOLEAN :
         IF ConfirmSkipped(args)
           THEN /\ run' = [run EXCEPT !.confirm = "skipped"]
                /\ lpc' = "down_run" /\ ret' = "none"
         ELSE IF yes
           THEN /\ run' = [run EXCEPT !.confirm = "yes"]
                /\ lpc' = "down_run" /\ ret' = "none"
         ELSE /\ run' = [run EXCEPT !.confirm = "no"]
              /\ lpc' = "done" /\ ret' = "false"
    /\ UNCHANGED <<cmd, env, args, fsvars, histvars, listing, supvars, funvars>>

\* cmd_down: the supervised apply of the destroy plan, or the supervised
\* direct destroy when planning failed (whose timeout branch ends in the
\* exception handler).
DownRun ==
    /\ cmd = "down" /\ lpc = "down_run"
    /\ \E o \in {"ok", "failed", "timeout", "exception"} :
         /\ (run.plans = 0 => o # "timeout")
         /\ run' = [run EXCEPT !.outcome = o,
                               !.invoked = @ \cup {IF run.plans = 1 THEN "apply_destroy"
                                                   ELSE "destroy"}]
         /\ state' = IF o = "ok" THEN [state EXCEPT ![env] = "valid_empty"] ELSE state
         /\ IF DestroySucceeded(o)
              THEN lpc' = "down_cleanup" /\ ret' = "none"
              ELSE lpc' = "done" /\ ret' = "false"
    /\ UNCHANGED <<cmd, env, args, dir, record, tfdir, histvars, listing, supvars, funvars>>

\* cmd_down: removal of the local files unless --keep-local, then success.
DownCleanup ==
    /\ cmd = "down" /\ lpc = "down_cleanup"
    /\ lpc' = "done"
    /\ ret' = "true"
    /\ lastUp' = [lastUp EXCEPT ![env] = "none"]
    /\ IF ~args.keep_local
         THEN /\ run' = [run EXCEPT !.removed = TRUE, !.touched = TRUE]
              /\ \E removed \in BOOLEAN, recGone \in BOOLEAN, tfGone \in BOOLEAN :
                   IF removed
                     THEN /\ dir' = [dir EXCEPT ![env] = FALSE]
                          /\ record' = [record EXCEPT ![env] = "none"]
                          /\ tfdir' = [tfdir EXCEPT ![env] = FALSE]
                          /\ state' = [state EXCEPT ![env] = "absent"]
                     \* rmtree raised part of the way: a warning, and the
                     \* directory stays with whatever was not yet deleted
                     ELSE /\ UNCHANGED dir
                          /\ record' = [record EXCEPT ![env] =
                                           IF recGone THEN "none" ELSE @]
                          /\ tfdir' = [tfdir EXCEPT ![env] = @ /\ ~tfGone]
                          /\ state' = [state EXCEPT ![env] =
                                          IF tfGone THEN "absent" ELSE @]
         ELSE UNCHANGED <<fsvars, run>>
    /\ UNCHANGED <<cmd, env, args, initOk, applyOk, listing, supvars, funvars>>

(***************************************************************************)
(* Lifecycle controller: `list`, return to the shell, and the operator     *)
(***************************************************************************)
CmdList ==
    /\ cmd = "none"
    /\ listing' = ListShown
    /\ listing' # listing
    /\ UNCHANGED <<cmd, env, args, lpc, ret, run, fsvars, histvars, supvars, funvars>>

\* main(): the command has returned; the next invocation starts afresh.
Return ==
    /\ lpc = "done"
    /\ cmd' = "none"
    /\ env' = "-"
    /\ args' = NoArgs
    /\ lpc' = "idle"
    /\ ret' = "none"
    /\ run' = RunInit
    /\ UNCHANGED <<fsvars, histvars, listing, supvars, funvars>>

\* Between two commands the state file can be found in any condition (an
\* interrupted provisioner, a truncated write, an edit by hand).
TamperState ==
    /\ cmd = "none"
    /\ \E e \in Envs, c \in StateConds :
         /\ dir[e] /\ tfdir[e]
         /\ c # state[e]
         /\ state' = [state EXCEPT ![e] = c]
    /\ UNCHANGED <<cmd, env, args, lpc, ret, run, dir, record, tfdir, histvars,
                   listing, supvars, funvars>>

\* Between two commands the operator can delete the record or the working
\* copy of an environment.
OperatorRemoves ==
    /\ cmd = "none"
    /\ \E e \in Envs :
         /\ dir[e]
         /\ \/ /\ record[e] # "none"
               /\ record' = [record EXCEPT ![e] = "none"]
               /\ UNCHANGED <<tfdir, state>>
            \/ /\ tfdir[e]
               /\ tfdir' = [tfdir EXCEPT ![e] = FALSE]
               /\ state' = [state EXCEPT ![e] = "absent"]
               /\ UNCHANGED record
    /\ UNCHANGED <<cmd, env, args, lpc, ret, run, dir, histvars, listing, supvars, funvars>>

Init == LifeIdle /\ SupIdle /\ FunIdle

Next ==
    \/ CmdUp
    \/ UpDryRun
    \/ ProvStart
    \/ ProvPreflight
    \/ ProvCreds
    \/ ProvValidateModules
    \/ ProvInit
    \/ ProvValidateConfig
    \/ ProvPlan
    \/ ProvApprove
    \/ ProvApply
    \/ ProvOutputs
    \/ UpDeploy
    \/ Interrupt
    \/ CmdDown
    \/ DownEnsureState
    \/ DownPlan
    \/ DownConfirm
    \/ DownRun
    \/ DownCleanup
    \/ CmdList
    \/ Return
    \/ TamperState
    \/ OperatorRemoves

Spec == Init /\ [][Next]_vars

(***************************************************************************)
(* The pure functions applied to bounded inputs (FunSpec)                  *)
(***************************************************************************)
\* How many times in a row a function is applied to what the previous
\* application left.
MaxRuns == 2

\* Variant of the validator's effect on the working copy: it creates the
\* policy modules it finds missing.
ValidatorLeaves_Repairs(D, t) ==
    [modules_dir |-> TRUE, present |-> t.present \cup RequiredPolicyModules(D)]

\* The working copy after validate_terraform_modules_against_manifest: the
\* function tests paths with os.path.exists and opens files for reading
\* only.
ValidatorLeaves(D, t) == t

\* validate_terraform_modules_against_manifest(manifest, terraform_project_dir)
CallValidate ==
    /\ call = NoCall
    /\ \E D \in SUBSET DepTypes, t \in ModuleTrees :
         call' = [f |-> "validate", D |-> D, tree0 |-> t,
                  tree |-> ValidatorLeaves(D, t),
                  results |-> <<ValidateModules(D, t)>>]
    /\ UNCHANGED <<supvars, lifevars>>

\* The same call once more, on the working copy the previous call left.
CallValidateAgain ==
    /\ call.f = "validate"
    /\ Len(call.results) < MaxRuns
    /\ call' = [call EXCEPT !.tree = ValidatorLeaves(call.D, @),
                            !.results = Append(@, ValidateModules(call.D, call.tree))]
    /\ UNCHANGED <<supvars, lifevars>>

\* ensure_valid_state_file(state_file_path, terraform_dir)
CallEnsure ==
    /\ call = NoCall
    /\ \E c \in StateConds :
         LET r == EnsureValidStateFile(c)
         IN  call' = [f |-> "ensure", c0 |-> c,
                      states |-> <<r.state>>, reports |-> <<r.repaired>>]
    /\ UNCHANGED <<supvars, lifevars>>

\* The same call once more, on the file the previous call left.
CallEnsureAgain ==
    /\ call.f = "ensure"
    /\ Len(call.states) < MaxRuns
    /\ LET r == EnsureValidStateFile(call.states[Len(call.states)])
       IN  call' = [call EXCEPT !.states = Append(@, r.state),
                                !.reports = Append(@, r.repaired)]
    /\ UNCHANGED <<supvars, lifevars>>

(***************************************************************************)
(* Manifest Compiler (prepare_terraform_vars)                              *)
(***************************************************************************)
MaxDeps == 2
MaxServices == 2

\* The dependency blocks of prepare_terraform_vars: manifest key, variable
\* it sets, built-in default, and whether the value goes through int().
\* The kafka block exists in buildandburn_backup.py only.
VarTable ==
    {[type |-> "database", key |-> "provider", var |-> "db_engine", default |-> "postgres", int |-> FALSE],
     [type |-> "database", key |-> "version", var |-> "db_engine_version", default |-> "13", int |-> FALSE],
     [type |-> "database", key |-> "instance_class", var |-> "db_instance_class", default |-> "db.t3.small", int |-> FALSE],
     [type |-> "database", key |-> "storage", var |-> "db_allocated_storage", default |-> "20", int |-> TRUE],
     [type |-> "queue", key |-> "provider", var |-> "mq_engine_type", default |-> "RabbitMQ", int |-> FALSE],
     [type |-> "queue", key |-> "version", var |-> "mq_engine_version", default |-> "3.13", int |-> FALSE],
     [type |-> "queue", key |-> "instance_class", var |-> "mq_instance_type", default |-> "mq.t3.micro", int |-> FALSE],
     [type |-> "redis", key |-> "node_type", var |-> "redis_node_type", default |-> "cache.t3.micro", int |-> FALSE],
     [type |-> "redis", key |-> "version", var |-> "redis_engine_version", default |-> "6.2", int |-> FALSE],
     [type |-> "redis", key |-> "cluster_size", var |-> "redis_cluster_size", default |-> "1", int |-> TRUE],
     [type |-> "redis", key |-> "auth_enabled", var |-> "redis_auth_enabled", default |-> "True", int |-> FALSE],
     [type |-> "redis", key |-> "multi_az", var |-> "redis_multi_az_enabled", default |-> "False", int |-> FALSE],
     [type |-> "kafka", key |-> "version", var |-> "kafka_version", default |-> "3.4.0", int |-> FALSE],
     [type |-> "kafka", key |-> "instance_type", var |-> "kafka_instance_type", default |-> "kafka.t3.small", int |-> FALSE],
     [type |-> "kafka", key |-> "broker_count", var |-> "kafka_broker_count", default |-> "2", int |-> TRUE],
     [type |-> "kafka", key |-> "volume_size", var |-> "kafka_volume_size", default |-> "100", int |-> TRUE],
     [type |-> "kafka", key |-> "monitoring_level", var |-> "kafka_monitoring_level", default |-> "DEFAULT", int |-> FALSE]}

\* The dependency types prepare_terraform_vars of buildandburn.py has a
\* block for.
CompiledTypes == {"database", "queue", "redis"}

RowsOf(t) == {r \in VarTable : r.type = t}
KeysOf(t) == {r.key : r \in RowsOf(t)}
VarsOf(t) == {r.var : r \in RowsOf(t)}

\* The variables set for every manifest.
BaseVars == {"project_name", "env_id", "region", "dependencies", "vpc_cidr",
             "eks_instance_types", "eks_node_min", "eks_node_max", "k8s_version"}

\* One entry of manifest['dependencies']: its type, the configuration keys
\* it carries (none, one, or all of its type's), and whether the numbers it
\* carries are text that int() accepts.
DepEntries ==
    {e \in [type : DepTypes, given : SUBSET {r.key : r \in VarTable}, numeric : BOOLEAN] :
        /\ e.given \subseteq KeysOf(e.type)
        /\ Cardinality(e.given) \in {0, 1, Cardinality(KeysOf(e.type))}
        /\ (~e.numeric => \E r \in RowsOf(e.type) : r.int /\ r.key \in e.given)}

NoEntry == [type |-> "none", given |-> {}, numeric |-> TRUE]

DepLists == UNION {[1..n -> DepEntries] : n \in 0..MaxDeps}

\* next((d for d in manifest['dependencies'] if d['type'] == t), None)
FirstOfType(deps, t) ==
    IF \E i \in 1..Len(deps) : deps[i].type = t
      THEN deps[CHOOSE i \in 1..Len(deps) :
                  /\ deps[i].type = t
                  /\ \A j \in 1..(i - 1) : deps[j].type # t]
      ELSE NoEntry

\* prepare_terraform_vars of buildandburn.py: whether it raised (int() of a
\* value that is not a number), the variables it returned and the
\* dependency types it warned about.
PrepareTerraformVars(deps) ==
    LET types == {deps[i].type : i \in 1..Len(deps)} \cap CompiledTypes
        cfg(t) == FirstOfType(deps, t)
        rows == UNION {RowsOf(t) : t \in types}
        row(v) == CHOOSE r \in rows : r.var = v
    IN  [raised |-> \E r \in rows : /\ r.int
                                    /\ r.key \in cfg(r.type).given
                                    /\ ~cfg(r.type).numeric,
         vars |-> [v \in BaseVars \cup {r.var : r \in rows} |->
                     IF v \in BaseVars THEN "base"
                     ELSE IF cfg(row(v).type) # NoEntry /\ row(v).key \in cfg(row(v).type).given
                       THEN "manifest"
                       ELSE row(v).default],
         warnings |-> {t \in types : cfg(t) = NoEntry}]

\* An ingress declaration, at manifest level or on a service: absent, a
\* block with enabled true ("on"), with enabled false ("off"), or a block
\* without the enabled key ("block").
IngressDecls == {"absent", "on", "off", "block"}

IngressManifests ==
    [ingress : IngressDecls,
     services : UNION {[1..n -> IngressDecls] : n \in 0..MaxServices}]

\* enable_ingress of prepare_terraform_vars in buildandburn_backup.py;
\* prepare_terraform_vars of buildandburn.py sets no such variable.
EnableIngress(m) ==
    \/ m.ingress # "absent" /\ m.ingress \in {"on", "block"}
    \/ \E i \in 1..Len(m.services) : m.services[i] = "on"
    \/ m.ingress = "absent"

\* prepare_terraform_vars(manifest, env_id, project_dir)
CallCompile ==
    /\ call = NoCall
    /\ \E deps \in DepLists :
         call' = [f |-> "compile", deps |-> deps, out |-> PrepareTerraformVars(deps)]
    /\ UNCHANGED <<supvars, lifevars>>

\* The ingress part of prepare_terraform_vars.
CallIngress ==
    /\ call = NoCall
    /\ \E m \in IngressManifests :
         call' = [f |-> "ingress", m |-> m, out |-> EnableIngress(m)]
    /\ UNCHANGED <<supvars, lifevars>>

CallReturn ==
    /\ call # NoCall
    /\ call' = NoCall
    /\ UNCHANGED <<supvars, lifevars>>

\* ---------------------------------------------------------------------
\* Resource Synthesizer: prepare_kubernetes_values and the generated
\* resources of deploy_to_kubernetes (buildandburn.py), generate_manifests
\* and process_service_dependencies (k8s_generator.py).
\* ---------------------------------------------------------------------

SvcNames == {"api", "web"}
InfraRefs == {"database", "queue", "redis"}
\* names a service may list under `dependencies`
DepRefs == SvcNames \cup InfraRefs \cup {"mq"}
MaxRefs == 2
RefSets == {d \in SUBSET DepRefs : Cardinality(d) <= MaxRefs}

\* how a service declares its port: not at all, `port: n`, `ports: [{port: n}]`
\* or `service: {ports: [{port: n}]}`
PortForms == {"none", "port", "ports", "service"}
SvcPort == 8080
DefaultPort == 80
Namespace == "bb-demo"
Secrets == {"pw1", "pw2"}

\* services by name; a service with no dependencies omits the key
ServiceMaps ==
    {("api" :> [form |-> "port", deps |-> d]) : d \in RefSets}
    \cup {("api" :> [form |-> "port", deps |-> d]) @@ ("web" :> [form |-> f, deps |-> {}]) :
            d \in RefSets, f \in PortForms}

\* infra: the types under the manifest's `dependencies`; named: whether those
\* entries carry a `name` key (equal to the type)
SynthManifests ==
    {m \in [services : ServiceMaps, infra : SUBSET InfraRefs, named : BOOLEAN] :
        m.named => m.infra # {}}

\* the provisioner's output map: the endpoints it holds, and the value of
\* its sensitive outputs (database_password, mq_password)
SynthOutputs == [present : SUBSET InfraRefs, secret : Secrets]

\* str.upper() on the names in use
Upper(s) ==
    CASE s = "api" -> "API"
      [] s = "web" -> "WEB"
      [] s = "database" -> "DATABASE"
      [] s = "queue" -> "QUEUE"
      [] s = "redis" -> "REDIS"
      [] s = "mq" -> "MQ"

\* str() on the ports in use
Str(n) ==
    CASE n = DefaultPort -> "80"
      [] n = SvcPort -> "8080"
      [] OTHER -> "n"

Endpoint(t) ==
    CASE t = "database" -> "db.internal:5432"
      [] t = "queue" -> "mq.internal:5671"
      [] t = "redis" -> "redis.internal"

ClusterAddress(t, ns) == t \o "." \o ns \o ".svc.cluster.local"

EnvVar(n, v) == [name |-> n, value |-> v]

\* the port process_service_dependencies resolves for a dependency
DepPort(t) ==
    IF t.form \in {"service", "ports"} THEN SvcPort ELSE DefaultPort

\* dep_type of a string dependency: the type of the manifest dependency
\* whose `name` equals it
DepType(dep, m) ==
    IF m.named /\ dep \in m.infra THEN dep ELSE "none"

InfraPlaceholders(t) ==
    CASE t = "database" ->
            {EnvVar("DATABASE_HOST", "${DATABASE_ENDPOINT}"),
             EnvVar("DATABASE_PORT", "5432"),
             EnvVar("DATABASE_NAME", "${DATABASE_NAME}"),
             EnvVar("DATABASE_USER", "${DATABASE_USERNAME}"),
             EnvVar("DATABASE_PASSWORD", "${DATABASE_PASSWORD}"),
             EnvVar("DATABASE_URL", "postgresql://${DATABASE_USERNAME}:${DATABASE_PASSWORD}@${DATABASE_ENDPOINT}:5432/${DATABASE_NAME}")}
      [] t = "queue" ->
            {EnvVar("RABBITMQ_HOST", "${MQ_ENDPOINT}"),
             EnvVar("RABBITMQ_PORT", "5672"),
             EnvVar("RABBITMQ_USER", "${MQ_USERNAME}"),
             EnvVar("RABBITMQ_PASSWORD", "${MQ_PASSWORD}"),
             EnvVar("RABBITMQ_URL", "amqp://${MQ_USERNAME}:${MQ_PASSWORD}@${MQ_ENDPOINT}:5672/")}
      [] t = "redis" ->
            {EnvVar("REDIS_HOST", "${CACHE_ENDPOINT}"),
             EnvVar("REDIS_PORT", "6379"),
             EnvVar("REDIS_URL", "redis://${CACHE_ENDPOINT}:6379")}
      [] OTHER -> {}

IdentityVars(n, ns) ==
    {EnvVar("APP_NAME", n), EnvVar("APP_NAMESPACE", ns), EnvVar("ENV", "development")}

\* process_service_dependencies(service, service_map, namespace, manifest_dependencies)
\* for the service named n (the names in use contain none of database,
\* redis, mq, so the branch adding defaults for such service names is idle)
ProcessServiceDependencies(n, m, ns) ==
    UNION {IF dep \in DOMAIN m.services
           THEN {EnvVar(Upper(dep) \o "_SERVICE_HOST", ClusterAddress(dep, ns)),
                 EnvVar(Upper(dep) \o "_SERVICE_PORT", Str(DepPort(m.services[dep])))}
           ELSE InfraPlaceholders(DepType(dep, m)) : dep \in m.services[n].deps}
    \cup IdentityVars(n, ns)

\* generate_manifests: the environment of each service's workload
GenerateManifests(m) ==
    [n \in DOMAIN m.services |->
        IF m.services[n].deps # {}
        THEN ProcessServiceDependencies(n, m, Namespace)
        ELSE {}]

\* prepare_kubernetes_values: the env list of each service of the values file
PrepareKubernetesValues(m, o) ==
    [n \in DOMAIN m.services |->
        (IF "database" \in o.present /\ "database" \in m.services[n].deps
         THEN {EnvVar("DATABASE_URL", Endpoint("database")),
               EnvVar("DATABASE_USER", "dbuser"),
               EnvVar("DATABASE_PASSWORD", o.secret)}
         ELSE {})
        \cup
        (IF "queue" \in o.present /\ "mq" \in m.services[n].deps
         THEN {EnvVar("MQ_URL", Endpoint("queue")),
               EnvVar("MQ_USER", "mquser"),
               EnvVar("MQ_PASSWORD", o.secret)}
         ELSE {})
        \cup
        (IF "redis" \in o.present /\ "redis" \in m.services[n].deps
         THEN {EnvVar("REDIS_HOST", Endpoint("redis")),
               EnvVar("REDIS_PORT", "6379"),
               EnvVar("REDIS_URL", "redis://" \o Endpoint("redis") \o ":6379")}
         ELSE {})]

\* the resources deploy_to_kubernetes generates from the values file when it
\* finds neither manifests nor a chart: the environment of each workload
DeployGenerated(m, values) ==
    [n \in DOMAIN m.services |->
        values[n] \cup
        UNION {{EnvVar(Upper(dep) \o "_SERVICE_HOST", ClusterAddress(dep, Namespace)),
                EnvVar(Upper(dep) \o "_SERVICE_PORT", "80")} :
               dep \in m.services[n].deps \cap DOMAIN m.services}]

\* analyze_terraform_errors(error_output) as provision_infrastructure calls it
CallAnalyze ==
    /\ call = NoCall
    /\ \E text \in ErrorTexts :
         call' = [f |-> "analyze", text |-> text,
                  out |-> AnalyzeTerraformErrors(Characters(text))]
    /\ UNCHANGED <<supvars, lifevars>>

\* A configuration directory: for each of its *.tf files, the number of
\* `provider "aws" { ... }` blocks in it.
TfFiles == {"providers.tf", "main.tf", "network.tf"}
MaxBlocks == 2
ConfigDirs == [TfFiles -> 0..MaxBlocks]

\* fix_duplicate_provider_blocks(terraform_dir): when more than one file
\* holds a provider block, re.sub removes every block from each of those
\* files not named providers.tf
FixDuplicateProviderBlocks(d) ==
    LET holders == {f \in TfFiles : d[f] > 0}
    IN  IF Cardinality(holders) > 1
        THEN [fixed |-> TRUE,
              dir |-> [f \in TfFiles |-> IF f = "providers.tf" THEN d[f] ELSE 0]]
        ELSE [fixed |-> FALSE, dir |-> d]

\* fix_terraform_issues: the fix_duplicate_providers action
CallFixProviders ==
    /\ call = NoCall
    /\ \E d \in ConfigDirs :
         call' = [f |-> "fix_providers", dir |-> d, out |-> FixDuplicateProviderBlocks(d)]
    /\ UNCHANGED <<supvars, lifevars>>

\* What ensure_k8s_resources finds: the manifest's k8s_path (absent, naming
\* a path that does not exist, or naming one that exists), a chart and
\* manifests at the standard locations, the auto_generate argument, whether
\* the generator module was imported, and whether generation succeeds.
K8sWorlds ==
    [k8s_path : {"absent", "missing", "exists"}, chart : BOOLEAN, manifests : BOOLEAN,
     auto_generate : BOOLEAN, generator : BOOLEAN, genOk : BOOLEAN]

\* Variant of the custom-path test that never takes the custom path.
UseCustomPath_Never(w) == FALSE

\* ensure_k8s_resources: the manifest names a k8s_path and it exists
UseCustomPath(w) == w.k8s_path = "exists"

\* ensure_k8s_resources(manifest, k8s_dir, project_dir, auto_generate): the
\* path it returns and whether it ran the generator
EnsureK8sResources(w) ==
    IF UseCustomPath(w) THEN [path |-> "custom", generated |-> FALSE]
    ELSE IF w.chart \/ w.manifests THEN [path |-> "k8s_dir", generated |-> FALSE]
    ELSE IF ~w.auto_generate THEN [path |-> "k8s_dir", generated |-> FALSE]
    ELSE IF ~w.generator THEN [path |-> "k8s_dir", generated |-> FALSE]
    ELSE IF w.genOk THEN [path |-> "generated_k8s", generated |-> TRUE]
    ELSE [path |-> "k8s_dir", generated |-> TRUE]

CallEnsureK8s ==
    /\ call = NoCall
    /\ \E w \in K8sWorlds :
         call' = [f |-> "ensure_k8s", w |-> w, out |-> EnsureK8sResources(w)]
    /\ UNCHANGED <<supvars, lifevars>>

\* The manifest object the synthesis functions are handed: per service,
\* whether it has an `env` key and the entries of that list with their
\* multiplicity. declared: the manifest gives every service an env list.
ManifestObject(m, declared) ==
    [n \in DOMAIN m.services |->
        [has |-> declared,
         env |-> IF declared THEN SetToBag({EnvVar("LOG_LEVEL", "info")}) ELSE EmptyBag]]

\* generate_manifests on the manifest object: process_service_dependencies
\* creates service['env'] when absent and extends that list in place;
\* generate_deployment then copies service['env'] into the workload.
GenerateManifestsOn(m, obj) ==
    LET after == [n \in DOMAIN m.services |->
                    IF m.services[n].deps # {}
                      THEN [has |-> TRUE,
                            env |-> obj[n].env (+) SetToBag(ProcessServiceDependencies(n, m, Namespace))]
                      ELSE obj[n]]
    IN  [obj |-> after, envs |-> [n \in DOMAIN m.services |-> after[n].env]]

\* prepare_kubernetes_values on the manifest object: service_values =
\* dict(service) shares the service's env list when it has one, and the
\* connection entries are appended to it.
PrepareKubernetesValuesOn(m, o, obj) ==
    LET added == [n \in DOMAIN m.services |-> SetToBag(PrepareKubernetesValues(m, o)[n])]
    IN  [obj |-> [n \in DOMAIN m.services |->
                    IF obj[n].has THEN [obj[n] EXCEPT !.env = @ (+) added[n]] ELSE obj[n]],
         envs |-> [n \in DOMAIN m.services |-> obj[n].env (+) added[n]]]

\* The two uses of one manifest object: generate_manifests twice, and
\* ensure_k8s_resources followed by deploy_to_kubernetes in one `up`.
SynthesisRuns == {<<"generate", "generate">>, <<"generate", "prepare">>}

NoOutputs == [present |-> {}, secret |-> "pw1"]

SynthesisStep(kind, m, o, obj) ==
    IF kind = "generate" THEN GenerateManifestsOn(m, obj)
    ELSE PrepareKubernetesValuesOn(m, o, obj)

CallSynthesizeTwice ==
    /\ call = NoCall
    /\ \E m \in SynthManifests, declared \in BOOLEAN, ops \in SynthesisRuns :
       \E o \in (IF ops[2] = "prepare" THEN SynthOutputs ELSE {NoOutputs}) :
         LET obj0 == ManifestObject(m, declared)
             s1 == SynthesisStep(ops[1], m, o, obj0)
             s2 == SynthesisStep(ops[2], m, o, s1.obj)
         IN  call' = [f |-> "resynth", manifest |-> m, outputs |-> o, ops |-> ops,
                      obj0 |-> obj0, obj1 |-> s1.obj, obj2 |-> s2.obj,
                      envs1 |-> s1.envs, envs2 |-> s2.envs]
    /\ UNCHANGED <<supvars, lifevars>>

\* deploy_to_kubernetes / ensure_k8s_resources applied to a manifest and an
\* output map
CallSynthesize ==
    /\ call = NoCall
    /\ \E m \in SynthManifests, o \in SynthOutputs :
         LET values == PrepareKubernetesValues(m, o) IN
         call' = [f |-> "synth", manifest |-> m, outputs |-> o,
                  values |-> values,
                  generated |-> GenerateManifests(m),
                  deployed |-> DeployGenerated(m, values)]
    /\ UNCHANGED <<supvars, lifevars>>

(***************************************************************************)
(* Policy-module remediation (fix_actions, apply_terraform_module_fixes)   *)
(***************************************************************************)
\* iam_policy_checks: the managed policy the eks module is searched for, per
\* dependency type.
IamPolicyChecks ==
    [database |-> "AmazonRDSFullAccess",
     queue |-> "AmazonMQFullAccess",
     redis |-> "AmazonElastiCacheFullAccess"]

\* f"eks-to-{dep}-policy"
PolicyModuleFor(dep) == "eks-to-" \o dep \o "-policy"

\* module.replace("-", "_") on the module names that occur.
ModuleVarName(m) ==
    CASE m = "eks-to-rds-policy" -> "eks_to_rds_policy"
      [] m = "eks-to-mq-policy" -> "eks_to_mq_policy"
      [] m = "eks-to-elasticache-policy" -> "eks_to_elasticache_policy"
      [] m = "eks-to-database-policy" -> "eks_to_database_policy"
      [] m = "eks-to-queue-policy" -> "eks_to_queue_policy"
      [] m = "eks-to-redis-policy" -> "eks_to_redis_policy"

\* The dependency apply_terraform_module_fixes derives from a module name by
\* substring tests ("rds", "mq", "elasticache" or "redis"), "none" for None.
DependencyOf(m) ==
    IF m = "eks-to-rds-policy" THEN "database"
    ELSE IF m = "eks-to-mq-policy" THEN "queue"
    ELSE IF m \in {"eks-to-elasticache-policy", "eks-to-redis-policy"} THEN "redis"
    ELSE "none"

\* main.tf of the working copy: the module blocks it declares (by variable
\* name) and whether it holds a `provider "kubernetes"` block.
MainTfs ==
    {f \in [exists : BOOLEAN,
            modules : SUBSET {ModuleVarName(m) : m \in RequiredPolicyModules(DepTypes)},
            k8s_provider : BOOLEAN] :
        ~f.exists => (f.modules = {} /\ ~f.k8s_provider)}

\* modules/eks/main.tf: the managed policy names its text contains.
EksMainTfs ==
    {e \in [exists : BOOLEAN,
            policies : SUBSET {IamPolicyChecks[d] : d \in DOMAIN IamPolicyChecks}] :
        ~e.exists => e.policies = {}}

\* The missing policy modules the validator reports as not referenced in
\* main.tf.
Unreferenced(D, t, main) ==
    IF t.modules_dir /\ {"eks", "vpc"} \subseteq t.present /\ main.exists
      THEN {m \in RequiredPolicyModules(D) \ t.present : ModuleVarName(m) \notin main.modules}
      ELSE {}

\* validation_results["fix_actions"]: add_module_reference for an
\* unreferenced missing policy module whose directory exists, and
\* add_policy_module for a dependency whose managed policy the eks module
\* lacks. An add_module_reference record has no dependency key ("none").
FixActions(D, t, main, eks) ==
    IF ~t.modules_dir THEN {}
    ELSE {[type |-> "add_module_reference", module |-> m, dependency |-> "none"] :
              m \in {u \in Unreferenced(D, t, main) : u \in t.present}}
         \cup
         {[type |-> "add_policy_module", module |-> PolicyModuleFor(dep), dependency |-> dep] :
              dep \in {d \in DOMAIN IamPolicyChecks \cap D :
                          /\ "eks" \in t.present /\ eks.exists
                          /\ IamPolicyChecks[d] \notin eks.policies
                          /\ PolicyModuleFor(d) \notin RequiredPolicyModules(D) \cap t.present}}

\* apply_terraform_module_fixes: only add_module_reference actions write;
\* each inserts its block before the kubernetes provider block when the
\* module name yields a dependency and main.tf holds that provider block.
ApplyTerraformModuleFixes(actions, main) ==
    LET written == {a.module : a \in {b \in actions :
                        /\ b.type = "add_module_reference"
                        /\ DependencyOf(b.module) # "none"
                        /\ main.exists /\ main.k8s_provider}}
    IN  [fixed |-> written # {},
         main |-> [main EXCEPT !.modules = @ \cup {ModuleVarName(m) : m \in written}]]

\* The auto-fix step of provision_infrastructure on a working copy:
\* validation, apply_terraform_module_fixes, and the validation that follows
\* a reported fix.
CallAutoFix ==
    /\ call = NoCall
    /\ \E D \in SUBSET DepTypes, main \in MainTfs, eks \in EksMainTfs :
       \E t \in WorkingCopies(D) :
         LET actions == FixActions(D, t, main, eks)
             r == ApplyTerraformModuleFixes(actions, main)
         IN  call' = [f |-> "autofix", D |-> D, tree |-> t, main0 |-> main, eks |-> eks,
                      policy_missing |-> ValidateModules(D, t).policy_missing,
                      auto_fixable |-> actions # {},
                      fix_actions |-> actions,
                      fixed |-> r.fixed,
                      main |-> r.main,
                      unreferenced |-> Unreferenced(D, t, r.main)]
    /\ UNCHANGED <<supvars, lifevars>>

FunInit == LifeIdle /\ SupIdle /\ FunIdle

FunNext ==
    \/ CallValidate
    \/ CallValidateAgain
    \/ CallEnsure
    \/ CallEnsureAgain
    \/ CallCompile
    \/ CallIngress
    \/ CallSynthesize
    \/ CallAnalyze
    \/ CallFixProviders
    \/ CallEnsureK8s
    \/ CallAutoFix
    \/ CallSynthesizeTwice
    \/ CallReturn

FunSpec == FunInit /\ [][FunNext]_vars

(***************************************************************************)
(* Properties of the process supervisor (SupSpec, SupFairSpec)             *)
(***************************************************************************)
Terminated == sig # "none"

\* C1: the supervisor never terminates the external process while the time
\* elapsed since its launch is below the ceiling of the operation
\* (TERRAFORM_APPLY_TIMEOUT for apply, TERRAFORM_DESTROY_TIMEOUT for destroy).
C1_NoTerminationBelowCeiling ==
    Terminated => ~(current_time - start_time < Timeout(op))

\* A run that the supervisor ended with terminate()/kill().
C1_Witness == Terminated /\ result = "timeout" /\ proc = "exited"

\* C2: when the ceiling has been exceeded but a line was read within the
\* grace window (time since last activity < 300 s) the supervisor does not
\* terminate the process.
C2_RecentActivityProtects ==
    Terminated => ~(current_time - last_activity_time < ACTIVITY_GRACE)

\* C3: once the ceiling and the grace window are both exceeded (no extension
\* applies past the ceiling), a supervised process that stays alive and
\* silent is eventually terminated and the operation ends in a timeout.
C3_SilentProcessIsTerminated ==
    (/\ op = "apply"
     /\ pc \in {"top", "read"}
     /\ proc = "hung"
     /\ now - start_time > Timeout(op)
     /\ now - last_activity_time > ACTIVITY_GRACE)
        ~> (result = "timeout" /\ Terminated)

\* The extension branch of the timeout decision is never taken: the decision
\* is only asked for when more than the whole ceiling has elapsed, which
\* rules out "less than 80% of the timeout".
ExtensionNeverGranted ==
    [][SupLoopTop => pc' # "top"]_vars

(***************************************************************************)
(* Properties of the lifecycle controller (Spec)                           *)
(***************************************************************************)
StateNeedsRepair == {"absent", "empty", "braces", "notjson"}

C6_RepairThenConfirmThenDestroy ==
    (cmd = "down" /\ run.precheck = "ok" /\ run.state0 \in StateNeedsRepair) =>
        /\ lpc # "down_state" =>
               (run.repaired /\ (run.removed \/ state[env] \notin StateNeedsRepair))
        /\ run.confirm # "none" => run.repaired
        /\ run.confirm = "skipped" => args.auto_approve
        /\ run.invoked \cap DestructiveCmds # {} => run.confirm \in {"yes", "skipped"}

C6_Witness ==
    /\ cmd = "down" /\ run.state0 \in StateNeedsRepair
    /\ run.repaired /\ run.confirm = "yes"
    /\ run.invoked \cap DestructiveCmds # {}

\* C7: when the environment directory, its env_info.json or its provisioner
\* working directory is missing, `down` returns failure, has invoked no
\* provisioner command and has modified no file.
C7_DownRequiresRecord ==
    (/\ cmd = "down"
     /\ ~run.removed
     /\ (~dir[env] \/ record[env] = "none" \/ ~tfdir[env])) =>
        /\ lpc = "done" /\ ret = "false"
        /\ run.precheck = "fail"
        /\ run.invoked = {}
        /\ ~run.touched

C7_Witness ==
    /\ cmd = "down" /\ lpc = "done" /\ ret = "false"
    /\ dir[env] /\ record[env] # "none" /\ ~tfdir[env]

\* C8: an `up` that fails after apply was started (non-zero exit, timeout,
\* output retrieval failure, deployment failure) does not roll back: it has
\* invoked no destroy and the environment directory still exists.
C8_NoRollback ==
    (cmd = "up" /\ "apply" \in run.invoked /\ ret = "false") =>
        /\ run.invoked \cap {"plan_destroy", "apply_destroy", "destroy"} = {}
        /\ ~run.removed
        /\ dir[env] /\ tfdir[env]

C8_Witness ==
    /\ cmd = "up" /\ ret = "false" /\ run.outcome \in {"failed", "timeout"}
    /\ "apply" \in run.invoked /\ dir[env]

C11_DestroyedNotListedActive ==
    (cmd = "down" /\ lpc = "done" /\ ret = "true") =>
        ~(env \in ListShown /\ ListStatus(env) = "ACTIVE")

ProvisioningCmds == {"init", "plan", "apply"}

\* C12: when validation finds a core module missing (vpc, eks, the module of
\* a declared dependency, or the whole modules directory) `up` aborts before
\* any provisioning: no init, plan or apply is invoked in that run and the
\* result is a failure.
C12_CoreModuleMissingAborts ==
    (cmd = "up" /\ run.modules = "core_missing") =>
        /\ lpc = "done" /\ ret = "false"
        /\ run.invoked \cap ProvisioningCmds = {}

C12_Witness ==
    cmd = "up" /\ run.modules = "core_missing" /\ lpc = "done" /\ run.touched

\* C13: when a policy module is missing and neither skip-module-confirmation
\* nor auto-approve is set, provisioning goes on only after the operator has
\* answered yes; on any other answer the run is aborted and no init, plan or
\* apply is invoked.
C13_PolicyModuleNeedsConfirmation ==
    (/\ cmd = "up"
     /\ run.modules = "policy_missing"
     /\ ~args.skip /\ ~args.auto_approve) =>
        /\ run.answer \in {"yes", "no"}
        /\ run.answer = "no" =>
               (lpc = "done" /\ ret = "false" /\ run.invoked \cap ProvisioningCmds = {})
        /\ run.invoked \cap ProvisioningCmds # {} => run.answer = "yes"

C13_Witness ==
    /\ cmd = "up" /\ run.modules = "policy_missing"
    /\ run.answer = "no" /\ lpc = "done" /\ ret = "false"

\* C14: during `up` the apply is started only after a plan of the same run
\* has succeeded (the first plan, or the one re-run after a fix pass) and the
\* operator has approved it or auto-approve is set; when the operator
\* declines, apply is not started and `up` returns without success.
C14_ApplyAfterPlanAndApproval ==
    cmd = "up" =>
        /\ "apply" \in run.invoked =>
               /\ "plan" \in run.invoked /\ run.planOk /\ run.plans \in {1, 2}
               /\ run.confirm \in {"yes", "skipped"}
               /\ run.confirm = "skipped" => args.auto_approve
        /\ run.confirm = "no" =>
               ("apply" \notin run.invoked /\ lpc = "done" /\ ret = "false")

C14_Witness ==
    /\ cmd = "up" /\ "apply" \in run.invoked
    /\ run.plans = 1 /\ run.confirm = "yes"

(***************************************************************************)
(* Properties of the pure functions (FunSpec)                              *)
(***************************************************************************)
\* C15: for every set D of declared dependency types drawn from {database,
\* queue, redis, kafka} the validator's required modules are the network and
\* cluster modules plus one infrastructure module per type in D, and its
\* required policy modules are one per type in D: no extras, no omissions.
C15_RequiredModulesPerType ==
    call.f = "validate" =>
        /\ {"vpc", "eks"} \subseteq RequiredModules(call.D)
        /\ Cardinality(RequiredModules(call.D)) = 2 + Cardinality(call.D)
        /\ Cardinality(RequiredPolicyModules(call.D)) = Cardinality(call.D)

WellFormedStates == {"valid_empty", "valid_res"}

\* C17: state-file repair is total and idempotent: whatever the file was
\* (absent, empty, `{}`, not JSON, JSON lacking version, serial, lineage or
\* resources, or valid) after ensure_valid_state_file it is a well-formed
\* state with the structural fields, and a second call reports no repair and
\* leaves the file as it is.
C17_RepairTotalAndIdempotent ==
    call.f = "ensure" =>
        /\ \A i \in 1..Len(call.states) : call.states[i] \in WellFormedStates
        /\ \A i \in 2..Len(call.states) :
               ~call.reports[i] /\ call.states[i] = call.states[i - 1]

DeclaredTypes(deps) == {deps[i].type : i \in 1..Len(deps)}

\* C18: the compiler is total and complete: for every manifest and every
\* dependency type of {database, queue, redis, kafka} present in it,
\* prepare_terraform_vars returns (it does not raise) a variable set that
\* holds every variable of that type, defaults filling what the manifest
\* omits.
C18_CompilerTotalAndComplete ==
    call.f = "compile" =>
        /\ ~call.out.raised
        /\ \A t \in DeclaredTypes(call.deps) :
               /\ VarsOf(t) # {}
               /\ VarsOf(t) \subseteq DOMAIN call.out.vars

\* C19: a manifest that declares a queue dependency by its type only
\* compiles to the built-in queue defaults (RabbitMQ, 3.13, mq.t3.micro) and
\* the compiler warns about it without failing.
C19_QueueDefaultsWithWarning ==
    (/\ call.f = "compile"
     /\ FirstOfType(call.deps, "queue") = [type |-> "queue", given |-> {}, numeric |-> TRUE]
     /\ \A i \in 1..Len(call.deps) : call.deps[i].numeric) =>
        /\ ~call.out.raised
        /\ call.out.vars["mq_engine_type"] = "RabbitMQ"
        /\ call.out.vars["mq_engine_version"] = "3.13"
        /\ call.out.vars["mq_instance_type"] = "mq.t3.micro"
        /\ "queue" \in call.out.warnings

\* C20: the compiled ingress flag is true exactly when the manifest-level
\* ingress setting enables it, or some service declares ingress enabled, or
\* the manifest holds no ingress declaration at all, neither at manifest
\* level nor on any service.
C20_IngressFlag ==
    /\ call.f = "compile" => "enable_ingress" \in DOMAIN call.out.vars
    /\ call.f = "ingress" =>
        (call.out <=>
            \/ call.m.ingress \in {"on", "block"}
            \/ \E i \in 1..Len(call.m.services) : call.m.services[i] = "on"
            \/ /\ call.m.ingress = "absent"
               /\ \A i \in 1..Len(call.m.services) : call.m.services[i] = "absent")

\* C21: for every service S depending on a service T of the same manifest,
\* the workload the generator synthesizes for S and the workload of the
\* resources generated at deploy time both carry T's host variable with the
\* value T.<namespace>.svc.cluster.local and T's port variable with the port
\* T declares, the default port appearing only when T declares none.
C21_ServiceDependencyWiring ==
    call.f = "synth" =>
        \A s \in DOMAIN call.manifest.services :
            \A t \in call.manifest.services[s].deps \cap DOMAIN call.manifest.services :
                LET declared == IF call.manifest.services[t].form \in {"ports", "service"}
                                THEN SvcPort ELSE DefaultPort
                IN  \A e \in {call.generated[s], call.deployed[s]} :
                        /\ EnvVar(Upper(t) \o "_SERVICE_HOST",
                                  t \o "." \o Namespace \o ".svc.cluster.local") \in e
                        /\ EnvVar(Upper(t) \o "_SERVICE_PORT", Str(declared)) \in e

\* C22: for every service that lists a declared infrastructure type
\* (database, queue, redis) by its type name, when the output map holds that
\* type's endpoint, the environment of the workload deployed for the service
\* holds the endpoint of the output map.
C22_InfraEndpointInjected ==
    call.f = "synth" =>
        \A s \in DOMAIN call.manifest.services :
            \A t \in call.manifest.services[s].deps \cap call.manifest.infra :
                t \in call.outputs.present =>
                    \E v \in call.deployed[s] :
                        v.value \in {Endpoint(t), "redis://" \o Endpoint(t) \o ":6379"}

\* C23: two output maps that differ only in the values of their sensitive
\* outputs give, for the same manifest, the same values file and the same
\* resources.
C23_SensitiveOutputsNotEmbedded ==
    call.f = "synth" =>
        \A o \in SynthOutputs :
            o.present = call.outputs.present =>
                /\ PrepareKubernetesValues(call.manifest, o) = call.values
                /\ DeployGenerated(call.manifest, PrepareKubernetesValues(call.manifest, o))
                     = call.deployed
                /\ GenerateManifests(call.manifest) = call.generated

\* C24: every workload of the synthesized resources carries APP_NAME,
\* APP_NAMESPACE and ENV, whether or not its service declares dependencies.
C24_IdentityVarsOnEveryWorkload ==
    call.f = "synth" =>
        \A s \in DOMAIN call.manifest.services :
            {EnvVar("APP_NAME", s), EnvVar("APP_NAMESPACE", Namespace),
             EnvVar("ENV", "development")} \subseteq call.generated[s]

\* C25: within one `up`, no provisioning operation is re-attempted
\* automatically more than once: init is re-run after its clean-up at most
\* once, plan is re-run after a fix pass at most once, and a failed re-run
\* of the plan ends the command with failure.
C25_AtMostOneReattempt ==
    cmd = "up" =>
        /\ run.reinits <= 1
        /\ run.replans <= 1
        /\ (run.replans = 1 /\ ~run.planOk) => (lpc = "done" /\ ret = "false")

\* C26: for an error text holding a pattern of the table,
\* analyze_terraform_errors returns that pattern's diagnosis and suggestion,
\* and it reports that a fix is possible, listing the pattern's fix action,
\* exactly when a pattern it holds is marked auto-fixable.
C26_ClassifierFollowsTable ==
    call.f = "analyze" =>
        LET held == {r \in ErrorTable :
                        \E i \in 1..Len(call.text) : r.pattern \in call.text[i]}
        IN  /\ \A r \in held : /\ r.diagnosis \in call.out.errors
                               /\ r.suggestion \in call.out.suggestions
                               /\ r.auto_fixable => r.fix_action \in call.out.fix_actions
            /\ call.out.auto_fix_possible <=> (\E r \in held : r.auto_fixable)

\* C27: when the provider is declared in more than one file of the directory,
\* exactly one provider declaration remains across the directory's files
\* after the duplicate-provider fix.
C27_OneProviderDeclarationRemains ==
    (call.f = "fix_providers" /\ Cardinality({f \in TfFiles : call.dir[f] > 0}) > 1) =>
        call.out.dir["providers.tf"] + call.out.dir["main.tf"] + call.out.dir["network.tf"] = 1

\* C28: a deployment returns failure only after every available path has
\* been attempted: a failed Helm install is followed by an attempt with raw
\* resources (the manifests found, or the resources generated from the
\* values file).
C28_FailureOnlyAfterEveryPath ==
    (cmd = "up" /\ lpc = "done" /\ lastUp[env] = "deploy_failed" /\ "helm" \in run.paths) =>
        run.paths \cap {"manifests", "generated"} # {}

\* C29: when the operator interrupts an `up` once the state file has been
\* written, the cleanup action saves the location of the working copy to
\* ~/.buildandburn_last, runs once, invokes no destroy, and the process
\* exits with a non-zero code.
C29_InterruptSavesReference ==
    (cmd = "up" /\ ret = "exit1" /\ "apply" \in run.invoked) =>
        /\ run.refSaved
        /\ run.cleanups = 1
        /\ run.invoked \cap DestructiveCmds = {}

\* C30: an invocation that ends without the command having succeeded exits
\* with a non-zero code; the exit code is 0 only when the command returned
\* success.
C30_FailureExitsNonZero ==
    lpc = "done" => (ExitCode(ret) = 0 => ret = "true")

\* C31: when the manifest names a k8s_path that exists, ensure_k8s_resources
\* returns that path and runs no generation, whatever auto_generate is and
\* whatever the standard locations hold; with auto_generate false it never
\* runs the generation.
C31_CustomPathReturnedNoGeneration ==
    call.f = "ensure_k8s" =>
        /\ call.w.k8s_path = "exists" =>
              (call.out.path = "custom" /\ ~call.out.generated)
        /\ ~call.w.auto_generate => ~call.out.generated

C31_Witness ==
    /\ call.f = "ensure_k8s"
    /\ call.w.k8s_path = "exists" /\ call.w.auto_generate /\ call.w.generator
    /\ ~call.w.chart /\ ~call.w.manifests
    /\ call.out.path = "custom"

C33_ReadReturnsToLoop ==
    (pc = "read" /\ proc = "hung" /\ pipe = <<>>) ~> (pc = "top")

\* C34: a start-of-action line adds the resource it names to the in-flight
\* set, and the completion line of a resource removes that resource and no
\* other, also when an in-flight name occurs inside the line of another
\* resource.
C34_InFlightSetExact ==
    [][(SupReadLine /\ Head(pipe).kind \in {"start", "complete"}) =>
          resources' = IF Head(pipe).kind = "start"
                       THEN resources \cup {Head(pipe).res}
                       ELSE resources \ {Head(pipe).res}]_vars


\* C35: whenever validation reports a missing policy module as auto-fixable,
\* the fix actions name that module, apply_terraform_module_fixes reports a
\* fix, and after it the module is no longer unreferenced in main.tf.
C35_AutoFixReferencesModule ==
    (call.f = "autofix" /\ call.auto_fixable /\ call.policy_missing # {}) =>
        /\ \A m \in call.policy_missing : \E a \in call.fix_actions : a.module = m
        /\ call.fixed
        /\ call.unreferenced = {}


\* C36: when the supervised run is reported finished, every line the
\* subprocess wrote before it exited has been consumed: no line is still in
\* the pipe.
C36_NoBufferedLineDropped ==
    (pc = "done" /\ result \in {"ok", "failed"}) => pipe = <<>>


\* C37: in both destroy paths, once the timeout branch has decided to
\* terminate and has returned, the supervised subprocess has been signalled
\* and is no longer running.
C37_TimeoutTerminatesSupervised ==
    (op \in {"destroy_plan", "destroy_direct"} /\ pc = "done" /\ result \in {"timeout", "exception"}) =>
        (sig # "none" /\ proc = "exited")


\* C38: synthesis leaves the manifest object as it found it, generating
\* twice from one manifest object yields the same environment for each
\* workload, and no environment holds an entry more than once.
C38_SynthesisLeavesManifest ==
    call.f = "resynth" =>
        /\ call.obj1 = call.obj0
        /\ call.obj2 = call.obj0
        /\ call.ops[1] = call.ops[2] => call.envs2 = call.envs1
        /\ \A n \in DOMAIN call.envs2 :
             \A e \in BagToSet(call.envs2[n]) : CopiesIn(e, call.envs2[n]) = 1


\* C39: an `up` whose deployment step returned success ran at least one
\* apply command of an attempted deployment path that exited with status 0.
C39_SuccessNeedsAnApply ==
    (cmd = "up" /\ lpc = "done" /\ ret = "true" /\ run.paths # {}) =>
        run.applied \cap run.paths # {}


\* C40: while `up` sets up and initialises the working copy and while `down`
\* checks the state file, a state file that is already valid (with or
\* without recorded resources) is left as it is, and `down` reports no
\* repair of it.
C40_ValidStateNotRewritten ==
    [][\A e \in Envs :
         (/\ state[e] \in {"valid_empty", "valid_res"}
          /\ env = e
          /\ \/ cmd = "up" /\ lpc \in {"prov_start", "init1", "init2"}
             \/ cmd = "down" /\ lpc = "down_state")
         => /\ state'[e] = state[e]
            /\ (cmd = "down" => ~run'.repaired)]_vars

C40_Witness ==
    /\ cmd = "up" /\ lpc = "validate_config"
    /\ run.state0 = "valid_res" /\ run.prev = "deployed"
    /\ "init" \in run.invoked
    /\ state[env] = "valid_res"

====
